---- MODULE Spec2Model ----
(***************************************************************************)
(* Bulk job processor of ColdlyBound: job creation, chunked processing,    *)
(* reset-for-regeneration, export and status, over one persisted job.      *)
(***************************************************************************)
EXTENDS FiniteSets, Integers, Sequences, TLC

(***************************************************************************)
(* Program constants                                                       *)
(***************************************************************************)
CHUNK_SIZE == 10
PARALLEL_BATCH_SIZE == 5
MAX_START_PROSPECTS == 1000
MAX_SYNC_PROSPECTS == 5000
SYNC_PROCESS_LIMIT == 10
BATCH_SIZE == 5

(***************************************************************************)
(* Bounds of the model                                                     *)
(***************************************************************************)
MaxRows == 11
MaxInvalid == 1
ScenarioRows == 25
MaxSyncRows == 3
MaxFaultRows == 3
MaxCalls == 4
MaxRaceRows == 2
MaxRenders == 2

Styles == {"style-a", "style-b"}
RequiredFields == {"prospects", "senderUrl", "whatWeDo", "intent", "styleSlug"}

Min(a, b) == IF a < b THEN a ELSE b

(***************************************************************************)
(* Values of a row (BulkProspect).  An optional string field is absent     *)
(* (kind "undef"), the empty string (kind "empty") or a text; a text       *)
(* remembers the row it was produced for and where it came from.           *)
(***************************************************************************)
Undef == [kind |-> "undef", for |-> 0, src |-> ""]
EmptyStr == [kind |-> "empty", for |-> 0, src |-> ""]
Text(rowIndex, src) == [kind |-> "text", for |-> rowIndex, src |-> src]

\* JavaScript truthiness of an optional string: undefined and '' are falsy
Truthy(v) == v.kind = "text"

\* mutant: the right operand whatever the left one
OrElseRight(a, b) == b

\* a || b on numbers: 0 is falsy
OrElse(a, b) == IF a = 0 THEN b ELSE a

\* The input fields of the CSV data line at position pos (1-based among the
\* data lines); ok = FALSE when a required field of the line is empty.
InputFields(pos, ok) == [line |-> pos, ok |-> ok]

(***************************************************************************)
(* validateAndParseCSV: one BulkProspect per data line                      *)
(***************************************************************************)
ParseRow(pos, ok) ==
  [ rowIndex        |-> pos + 1,
    input           |-> InputFields(pos, ok),
    status          |-> IF ok THEN "pending" ELSE "failed",
    generatedEmail1 |-> Undef,
    generatedEmail2 |-> Undef,
    generatedEmail3 |-> Undef,
    error           |-> IF ok THEN Undef ELSE Text(pos + 1, "Missing required fields") ]

validateAndParseCSV(n, invalid) ==
  [ pos \in 1..n |-> ParseRow(pos, pos \notin invalid) ]

(***************************************************************************)
(* The persisted bulk_jobs record.  status "none": no job under the id.    *)
(* prospects_json is the JSON type of the stored prospects_data: "array"   *)
(* for a row list (held in prospects_data), "string" for a JSON string,    *)
(* which the start route stores as readily as a list.                      *)
(***************************************************************************)
NoJob ==
  [ status |-> "none", total_prospects |-> 0, processed_count |-> 0,
    success_count |-> 0, failed_count |-> 0, style_slug |-> "",
    completed_at |-> "null", prospects_json |-> "array",
    prospects_data |-> << >> ]

(***************************************************************************)
(* The Draft Generation Collaborator.  A generation outcome is a thrown    *)
(* API error, a response without a text block, or a text; a text is the    *)
(* sequence of its non-blank "EMAIL n:" sections, TRUE for a section whose *)
(* BODY is non-empty.  site tells whether the row's website could be       *)
(* fetched by the Row Research Collaborator ("up") or not ("down").  turn   *)
(* tells when the row's pipeline settles among the pipelines of its        *)
(* sub-batch: by increasing turn, pipelines of equal turn in the order in  *)
(* which they were dispatched.                                             *)
(***************************************************************************)
GenThrow == [kind |-> "throw", sections |-> << >>, site |-> "up", turn |-> 0]
GenNoText == [kind |-> "notext", sections |-> << >>, site |-> "up", turn |-> 0]
GenText(sections) ==
  [kind |-> "text", sections |-> sections, site |-> "up", turn |-> 0]

\* the same generation outcome settling at another moment
SettlesAt(gen, turn) == [gen EXCEPT !.turn = turn]

\* the same generation outcome for a row whose website cannot be fetched
SiteDown(gen) == [gen EXCEPT !.site = "down"]

NominalResponse == GenText(<<TRUE, TRUE, TRUE>>)
\* a thrown call, a response without text, and a text whose preamble before
\* "EMAIL 1:" counts as a section of its own
DeviantResponses ==
  { GenThrow, GenNoText, GenText(<<FALSE, TRUE, TRUE, TRUE>>) }

SectionName == <<"section 1", "section 2", "section 3">>

\* parseThreeEmails: the first three sections, those with a body kept in
\* order, padded with '' to three entries
RECURSIVE KeepBodies(_, _, _)
KeepBodies(rowIndex, sections, i) ==
  IF i > Min(Len(sections), 3) THEN << >>
  ELSE (IF sections[i] THEN << Text(rowIndex, SectionName[i]) >> ELSE << >>)
       \o KeepBodies(rowIndex, sections, i + 1)

PadToThree(emails) ==
  emails \o [ i \in 1..(3 - Len(emails)) |-> EmptyStr ]

parseThreeEmails(rowIndex, sections) ==
  PadToThree(KeepBodies(rowIndex, sections, 1))

(***************************************************************************)
(* scrapeWebsite: the facts about a site.  A failed fetch is caught inside *)
(* and answered with basic data derived from the URL, key points empty.    *)
(* buildBulkPrompt joins the key points and so needs the list to exist.    *)
(***************************************************************************)
\* mutant: the basic data of a failed fetch carries no key-point list
scrapeWebsiteNoKeyPoints(site) ==
  IF site = "up" THEN [source |-> "page", keyPoints |-> "list"]
  ELSE [source |-> "url", keyPoints |-> "undefined"]

scrapeWebsite(site) ==
  IF site = "up" THEN [source |-> "page", keyPoints |-> "list"]
  ELSE [source |-> "url", keyPoints |-> "empty list"]

\* targetData.keyPoints.join(', ') throws on a missing list
buildBulkPrompt(targetData) ==
  IF targetData.keyPoints = "undefined" THEN "TypeError" ELSE "prompt"

(***************************************************************************)
(* processProspect: the settled promise of one row's pipeline: research,   *)
(* prompt, generation, parse.                                              *)
(***************************************************************************)
Fulfilled(value) == [status |-> "fulfilled", value |-> value, reason |-> Undef]
Rejected(reason) == [status |-> "rejected", value |-> << >>, reason |-> reason]

\* emails[k] || ''
OrEmpty(v) == IF Truthy(v) THEN v ELSE EmptyStr

processProspect(prospect, gen) ==
  IF buildBulkPrompt(scrapeWebsite(gen.site)) = "TypeError"
    THEN Rejected(Text(prospect.rowIndex, "TypeError"))
  ELSE IF gen.kind = "throw" THEN Rejected(Text(prospect.rowIndex, "api error"))
  ELSE IF gen.kind = "notext"
    THEN Rejected(Text(prospect.rowIndex, "No text content in response"))
  ELSE LET emails == parseThreeEmails(prospect.rowIndex, gen.sections)
       IN Fulfilled(<< OrEmpty(emails[1]), OrEmpty(emails[2]), OrEmpty(emails[3]) >>)

(***************************************************************************)
(* Helpers on the row collection                                           *)
(***************************************************************************)
\* mutant: the row index taken for the array position
FindIndexAsPosition(prospects, rowIndex) ==
  IF rowIndex <= Len(prospects) THEN rowIndex ELSE 0

\* prospects.findIndex(p => p.rowIndex === rowIndex), 1-based; 0 for -1
FindIndex(prospects, rowIndex) ==
  IF \E i \in 1..Len(prospects) : prospects[i].rowIndex = rowIndex
  THEN CHOOSE i \in 1..Len(prospects) :
         /\ prospects[i].rowIndex = rowIndex
         /\ \A j \in 1..(i - 1) : prospects[j].rowIndex # rowIndex
  ELSE 0

\* mutant: failed rows are selected along with the rows of the status asked
FilterStatusOrFailed(prospects, st) ==
  SelectSeq(prospects, LAMBDA p : p.status \in {st, "failed"})

\* prospects.filter(p => p.status === st), order kept
FilterStatus(prospects, st) == SelectSeq(prospects, LAMBDA p : p.status = st)

CountStatus(prospects, st) == Len(FilterStatus(prospects, st))

\* mutant: every loaded row is taken for pending
CoerceStatusAllPending(prospects) ==
  [ i \in 1..Len(prospects) |-> [ prospects[i] EXCEPT !.status = "pending" ] ]

\* p.status || 'pending'
CoerceStatus(prospects) ==
  [ i \in 1..Len(prospects) |->
      [ prospects[i] EXCEPT !.status = IF @ = "" THEN "pending" ELSE @ ] ]

\* mutant: an inclusive upper end, one element too many
SliceInclusive(arr, from, n) == SubSeq(arr, from, Min(Len(arr), from + n))

\* arr.slice(from - 1, from - 1 + n) for a 1-based from
Slice(arr, from, n) == SubSeq(arr, from, Min(Len(arr), from + n - 1))

(***************************************************************************)
(* The merge of one settled result into the collection and the counters    *)
(* (the body of batchResults.forEach)                                      *)
(***************************************************************************)
\* mutant: the failure branch forgets processedCount++
MergeResultFailureUncounted(acc, prospect, result) ==
  LET prospectIdx == FindIndex(acc.prospects, prospect.rowIndex) IN
  IF prospectIdx = 0 THEN acc
  ELSE IF result.status = "fulfilled"
    THEN [ acc EXCEPT
             !.prospects[prospectIdx] =
                [ @ EXCEPT !.generatedEmail1 = result.value[1],
                           !.generatedEmail2 = result.value[2],
                           !.generatedEmail3 = result.value[3],
                           !.status = "completed" ],
             !.successCount = @ + 1,
             !.processedCount = @ + 1 ]
    ELSE [ acc EXCEPT
             !.prospects[prospectIdx] =
                [ @ EXCEPT !.status = "failed", !.error = result.reason ],
             !.failedCount = @ + 1 ]

MergeResult(acc, prospect, result) ==
  LET prospectIdx == FindIndex(acc.prospects, prospect.rowIndex) IN
  IF prospectIdx = 0 THEN acc
  ELSE IF result.status = "fulfilled"
    THEN [ acc EXCEPT
             !.prospects[prospectIdx] =
                [ @ EXCEPT !.generatedEmail1 = result.value[1],
                           !.generatedEmail2 = result.value[2],
                           !.generatedEmail3 = result.value[3],
                           !.status = "completed" ],
             !.successCount = @ + 1,
             !.processedCount = @ + 1 ]
    ELSE [ acc EXCEPT
             !.prospects[prospectIdx] =
                [ @ EXCEPT !.status = "failed",
                           !.error = IF Truthy(result.reason) THEN result.reason
                                     ELSE Text(prospect.rowIndex, "Processing failed") ],
             !.failedCount = @ + 1,
             !.processedCount = @ + 1 ]

\* mutant: Promise.all instead of Promise.allSettled, the first rejection
\* ends the merge of the sub-batch
RECURSIVE MergeBatchUntilReject(_, _, _, _)
MergeBatchUntilReject(acc, batch, batchResults, idx) ==
  IF idx > Len(batch) \/ batchResults[idx].status = "rejected" THEN acc
  ELSE MergeBatchUntilReject(MergeResult(acc, batch[idx], batchResults[idx]),
                             batch, batchResults, idx + 1)

RECURSIVE MergeBatch(_, _, _, _)
MergeBatch(acc, batch, batchResults, idx) ==
  IF idx > Len(batch) THEN acc
  ELSE MergeBatch(MergeResult(acc, batch[idx], batchResults[idx]),
                  batch, batchResults, idx + 1)

\* the pipelines of a sub-batch in the order in which they settle, each
\* with its position idx in the sub-batch and its result; gens[k] is the
\* generation outcome of the k-th row of the chunk, the batch starts at
\* chunk position from, and left holds the positions still in flight
RECURSIVE SettleInTurn(_, _, _, _)
SettleInTurn(batch, gens, from, left) ==
  IF left = {} THEN << >>
  ELSE LET idx == CHOOSE a \in left :
                    \A b \in left :
                      \/ gens[from + a - 1].turn < gens[from + b - 1].turn
                      \/ /\ gens[from + a - 1].turn = gens[from + b - 1].turn
                         /\ a <= b
       IN << [ idx |-> idx,
               result |-> processProspect(batch[idx], gens[from + idx - 1]) ] >>
          \o SettleInTurn(batch, gens, from, left \ {idx})

Completions(batch, gens, from) == SettleInTurn(batch, gens, from, 1..Len(batch))

\* mutant: the results in the order in which the pipelines settled
allSettledAsSettled(completions) ==
  [ k \in 1..Len(completions) |-> completions[k].result ]

\* Promise.allSettled: the result of each pipeline at the position of its
\* promise in the input, whenever it settled
allSettled(completions) ==
  [ idx \in 1..Len(completions) |->
      LET k == CHOOSE c \in 1..Len(completions) : completions[c].idx = idx
      IN completions[k].result ]

\* Promise.allSettled(batch.map(processProspect))
SettleBatch(batch, gens, from) == allSettled(Completions(batch, gens, from))

\* for (i = 0; i < chunk.length; i += PARALLEL_BATCH_SIZE): the sub-batches
RECURSIVE Batches(_, _)
Batches(chunkToProcess, from) ==
  IF from > Len(chunkToProcess) THEN << >>
  ELSE << Slice(chunkToProcess, from, PARALLEL_BATCH_SIZE) >>
       \o Batches(chunkToProcess, from + PARALLEL_BATCH_SIZE)

RECURSIVE ProcessBatches(_, _, _, _)
ProcessBatches(acc, chunkToProcess, gens, from) ==
  IF from > Len(chunkToProcess) THEN acc
  ELSE LET batch == Slice(chunkToProcess, from, PARALLEL_BATCH_SIZE)
           batchResults == SettleBatch(batch, gens, from)
       IN ProcessBatches(MergeBatch(acc, batch, batchResults, 1),
                         chunkToProcess, gens, from + PARALLEL_BATCH_SIZE)

(***************************************************************************)
(* Responses.  One record shape for every route; fields a route does not   *)
(* return keep their defaults.                                             *)
(***************************************************************************)
NoResp ==
  [ op |-> "none", code |-> 0, status |-> "", processedCount |-> 0,
    successCount |-> 0, failedCount |-> 0, totalProspects |-> 0,
    remainingCount |-> 0, isComplete |-> FALSE, styleSlug |-> "",
    table |-> << >> ]

ErrorResp(op, code) == [NoResp EXCEPT !.op = op, !.code = code]

ChunkResp(status, processed, success, failed, total, remaining, isComplete) ==
  [ NoResp EXCEPT !.op = "process", !.code = 200, !.status = status,
      !.processedCount = processed, !.successCount = success,
      !.failedCount = failed, !.totalProspects = total,
      !.remainingCount = remaining, !.isComplete = isComplete ]

\* what one invocation of a route leaves behind: the persisted job, the
\* response, and the sub-batches it dispatched with their settled results
Outcome(st, rsp, batches, results) ==
  [store |-> st, resp |-> rsp, dispatched |-> batches, settled |-> results]

RowIndexes(batch) == [ i \in 1..Len(batch) |-> batch[i].rowIndex ]

(***************************************************************************)
(* POST /api/bulk/process (chunked): the whole handler on the loaded job j *)
(* with gens the generation outcomes of the rows of the chunk              *)
(***************************************************************************)
\* mutant: a terminal job is re-marked completed and stamped again
TerminalBranchRestamps(j) ==
  Outcome([j EXCEPT !.status = "completed", !.completed_at = "set"],
          ChunkResp(j.status, j.processed_count, j.success_count,
                    j.failed_count, j.total_prospects, 0, TRUE),
          << >>, << >>)

TerminalBranch(j) ==
  Outcome(j,
          ChunkResp(j.status, j.processed_count, j.success_count,
                    j.failed_count, j.total_prospects, 0, TRUE),
          << >>, << >>)

MarkProcessing(j) ==
  IF j.status = "pending" THEN [j EXCEPT !.status = "processing"] ELSE j

\* mutant: the completion without pending rows leaves no timestamp
EmptyBranchUnstamped(j, prospects) ==
  Outcome([ MarkProcessing(j) EXCEPT !.status = "completed" ],
          ChunkResp("completed",
                    OrElse(j.processed_count, Len(prospects)),
                    OrElse(j.success_count, CountStatus(prospects, "completed")),
                    OrElse(j.failed_count, CountStatus(prospects, "failed")),
                    Len(prospects), 0, TRUE),
          << >>, << >>)

EmptyBranch(j, prospects) ==
  Outcome([ MarkProcessing(j) EXCEPT !.status = "completed", !.completed_at = "set" ],
          ChunkResp("completed",
                    OrElse(j.processed_count, Len(prospects)),
                    OrElse(j.success_count, CountStatus(prospects, "completed")),
                    OrElse(j.failed_count, CountStatus(prospects, "failed")),
                    Len(prospects), 0, TRUE),
          << >>, << >>)

ChunkBranch(j, prospects, unprocessedProspects, gens) ==
  LET chunkToProcess == Slice(unprocessedProspects, 1, CHUNK_SIZE)
      start == [ prospects      |-> prospects,
                 processedCount |-> OrElse(j.processed_count, 0),
                 successCount   |-> OrElse(j.success_count, 0),
                 failedCount    |-> OrElse(j.failed_count, 0) ]
      acc == ProcessBatches(start, chunkToProcess, gens, 1)
      batches == Batches(chunkToProcess, 1)
      remainingUnprocessed == CountStatus(acc.prospects, "pending")
      isComplete == remainingUnprocessed = 0
      newStatus == IF isComplete THEN "completed" ELSE "processing"
  IN Outcome([ MarkProcessing(j) EXCEPT
                 !.status = newStatus,
                 !.processed_count = acc.processedCount,
                 !.success_count = acc.successCount,
                 !.failed_count = acc.failedCount,
                 !.prospects_data = acc.prospects,
                 !.completed_at = IF isComplete THEN "set" ELSE @ ],
             ChunkResp(newStatus, acc.processedCount, acc.successCount,
                       acc.failedCount, Len(acc.prospects),
                       remainingUnprocessed, isComplete),
             [ b \in 1..Len(batches) |-> RowIndexes(batches[b]) ],
             [ b \in 1..Len(batches) |->
                 SettleBatch(batches[b], gens, (b - 1) * PARALLEL_BATCH_SIZE + 1) ])

\* lines 53-79: the stored data is not a row list
ParseFailure(j) ==
  Outcome([j EXCEPT !.status = "failed"], ErrorResp("process", 500), << >>, << >>)

ProcessChunk(j, gens) ==
  IF j.status = "none" THEN Outcome(j, ErrorResp("process", 404), << >>, << >>)
  ELSE IF j.status \in {"completed", "cancelled"} THEN TerminalBranch(j)
  ELSE IF j.prospects_json # "array" THEN ParseFailure(j)
  ELSE LET prospects == CoerceStatus(j.prospects_data)
           unprocessedProspects == FilterStatus(prospects, "pending")
       IN IF Len(unprocessedProspects) = 0 THEN EmptyBranch(j, prospects)
          ELSE ChunkBranch(j, prospects, unprocessedProspects, gens)

(***************************************************************************)
(* POST /api/bulk/process (all-at-once variant): every pending row of the  *)
(* job in batches of BATCH_SIZE, the collection written after each batch,  *)
(* then the job marked completed.  The status is written to processing     *)
(* before the stored data is looked at.                                    *)
(***************************************************************************)
RECURSIVE AllBatches(_, _)
AllBatches(unprocessedProspects, from) ==
  IF from > Len(unprocessedProspects) THEN << >>
  ELSE << Slice(unprocessedProspects, from, BATCH_SIZE) >>
       \o AllBatches(unprocessedProspects, from + BATCH_SIZE)

RECURSIVE ProcessAllBatches(_, _, _, _)
ProcessAllBatches(acc, unprocessedProspects, gens, from) ==
  IF from > Len(unprocessedProspects) THEN acc
  ELSE LET batch == Slice(unprocessedProspects, from, BATCH_SIZE)
           batchResults == SettleBatch(batch, gens, from)
       IN ProcessAllBatches(MergeBatch(acc, batch, batchResults, 1),
                            unprocessedProspects, gens, from + BATCH_SIZE)

AllResp(code, processed, success, failed) ==
  [ NoResp EXCEPT !.op = "process-all", !.code = code,
      !.processedCount = processed, !.successCount = success,
      !.failedCount = failed ]

ProcessAll(j, gens, styles) ==
  IF j.status = "none" THEN Outcome(j, ErrorResp("process-all", 404), << >>, << >>)
  ELSE IF j.status \in {"completed", "cancelled"}
    THEN Outcome(j, AllResp(200, 0, 0, 0), << >>, << >>)
  ELSE IF j.style_slug \notin styles
    THEN Outcome([j EXCEPT !.status = "failed"],
                 ErrorResp("process-all", 500), << >>, << >>)
  ELSE IF j.prospects_json # "array"
    \* prospects.filter is not a function: the outer catch answers
    THEN Outcome([j EXCEPT !.status = "processing"],
                 ErrorResp("process-all", 500), << >>, << >>)
  ELSE LET unprocessedProspects == FilterStatus(j.prospects_data, "pending")
           start == [ prospects      |-> j.prospects_data,
                      processedCount |-> OrElse(j.processed_count, 0),
                      successCount   |-> OrElse(j.success_count, 0),
                      failedCount    |-> OrElse(j.failed_count, 0) ]
           acc == ProcessAllBatches(start, unprocessedProspects, gens, 1)
           batches == AllBatches(unprocessedProspects, 1)
       IN Outcome([ j EXCEPT
                      !.status = "completed",
                      !.processed_count =
                         IF batches = << >> THEN @ ELSE acc.processedCount,
                      !.success_count =
                         IF batches = << >> THEN @ ELSE acc.successCount,
                      !.failed_count =
                         IF batches = << >> THEN @ ELSE acc.failedCount,
                      !.prospects_data = acc.prospects,
                      !.completed_at = "set" ],
                  AllResp(200, acc.processedCount, acc.successCount,
                          acc.failedCount),
                  [ b \in 1..Len(batches) |-> RowIndexes(batches[b]) ],
                  [ b \in 1..Len(batches) |->
                      SettleBatch(batches[b], gens, (b - 1) * BATCH_SIZE + 1) ])

\* the statuses the all-at-once route writes, in order
AllStatusWrites(j, out) ==
  IF j.status \in {"none", "completed", "cancelled"} THEN << >>
  ELSE IF out.store.status = "processing" THEN << "processing" >>
  ELSE << "processing", out.store.status >>

(***************************************************************************)
(* The store writes of one invocation.  The handler awaits each update and *)
(* goes on whatever the store answers: the result of the status write is   *)
(* dropped and the error of the last write is only logged.  "mark" names   *)
(* the pending -> processing write, "final" the write that ends the        *)
(* invocation.                                                             *)
(***************************************************************************)
StoreWrites == {"mark", "final"}

\* the persisted job after an invocation on the loaded job j with atomic
\* outcome out, when the store refused the writes in failing
Persist(j, out, failing) ==
  IF j.status = "none" THEN j
  ELSE IF j.status \in {"completed", "cancelled"} THEN out.store
  ELSE IF "final" \notin failing THEN out.store
  ELSE IF j.prospects_json = "array" /\ "mark" \notin failing
    THEN MarkProcessing(j)
  ELSE j

\* the statuses the invocation persisted, in the order of its writes
StatusWrites(j, out, failing) ==
  IF j.status \in {"none", "completed", "cancelled"} THEN << >>
  ELSE (IF j.status = "pending" /\ j.prospects_json = "array"
           /\ "mark" \notin failing
        THEN << "processing" >> ELSE << >>)
       \o (IF "final" \notin failing THEN << out.store.status >> ELSE << >>)

\* what the environment did during one chunk invocation: the store writes it
\* refused and the outcome of every row's collaborators
Env(failing, gens, statuses) ==
  [failing |-> failing, gens |-> gens, statuses |-> statuses]

NoEnv == Env({}, << >>, << >>)

\* the same for an invocation taken apart at its awaits, with the job as it
\* was stored when the invocation's last update reached the store
EnvAt(gens, statuses, stored) ==
  [failing |-> {}, gens |-> gens, statuses |-> statuses, stored |-> stored]

(***************************************************************************)
(* An invocation of the chunked route taken apart at its awaits: the load  *)
(* of the job, the status write, and the last update.  Each update names   *)
(* the columns it sets and is applied to the job as stored at that moment. *)
(***************************************************************************)
Invocations == {1, 2}

Idle == [phase |-> "idle", job |-> NoJob]

\* lines 132-138 applied to the stored job cur by an invocation that loaded j
WriteProcessing(cur, j) ==
  IF j.status = "pending" /\ j.prospects_json = "array"
  THEN [cur EXCEPT !.status = "processing"]
  ELSE cur

\* mutant: the counters are advanced from the stored ones
WriteFinalAdvancesStored(cur, j, out) ==
  [cur EXCEPT !.status = out.store.status,
              !.processed_count = @ + (out.store.processed_count - j.processed_count),
              !.success_count = @ + (out.store.success_count - j.success_count),
              !.failed_count = @ + (out.store.failed_count - j.failed_count),
              !.prospects_data = out.store.prospects_data,
              !.completed_at = IF out.resp.isComplete THEN "set" ELSE @]

\* mutant: the update is skipped when the stored rows are no longer those
\* the invocation loaded
WriteFinalIfUnchanged(cur, j, out) ==
  IF cur.prospects_data # j.prospects_data THEN cur
  ELSE [cur EXCEPT !.status = out.store.status,
                   !.processed_count = out.store.processed_count,
                   !.success_count = out.store.success_count,
                   !.failed_count = out.store.failed_count,
                   !.prospects_data = out.store.prospects_data,
                   !.completed_at = IF out.resp.isComplete THEN "set" ELSE @]

\* the last update of an invocation that loaded j and computed out, applied
\* to the stored job cur: lines 74-77, 145-152 or 223-234
WriteFinal(cur, j, out) ==
  IF j.prospects_json # "array" THEN [cur EXCEPT !.status = "failed"]
  ELSE IF CountStatus(CoerceStatus(j.prospects_data), "pending") = 0
    THEN [cur EXCEPT !.status = "completed", !.completed_at = "set"]
  ELSE [cur EXCEPT !.status = out.store.status,
                   !.processed_count = out.store.processed_count,
                   !.success_count = out.store.success_count,
                   !.failed_count = out.store.failed_count,
                   !.prospects_data = out.store.prospects_data,
                   !.completed_at = IF out.resp.isComplete THEN "set" ELSE @]

(***************************************************************************)
(* POST /api/bulk/start (chunked variant): validation and insert.  A       *)
(* request names the required form fields it carries, what the prospects   *)
(* field parses to ("array" for the row list of the CSV ingestion, "array,  *)
(* index repeated" for that list with the rowIndex of its first row        *)
(* written into its last row by the caller, "string" for a JSON string,    *)
(* "malformed" when JSON.parse throws), the length n of the parsed value,  *)
(* the data lines lacking a required field, and the style slug.            *)
(***************************************************************************)
Request(present, json, n, invalid, styleSlug) ==
  [present |-> present, json |-> json, n |-> n, invalid |-> invalid,
   styleSlug |-> styleSlug]

NoRequest == Request({}, "", 0, {}, "")

\* mutant: the check for an empty row list is missing
ValidateStartAllowsEmpty(req, maxProspects) ==
  IF req.present # RequiredFields THEN 400
  ELSE IF req.json = "malformed" THEN 400
  ELSE IF req.n > maxProspects THEN 400
  ELSE 0

\* lines 34-66 of both start routes; 0 when the request is accepted
ValidateStart(req, maxProspects) ==
  IF req.present # RequiredFields THEN 400
  ELSE IF req.json = "malformed" THEN 400
  ELSE IF req.n = 0 THEN 400
  ELSE IF req.n > maxProspects THEN 400
  ELSE 0

StartResp(code, status, n) ==
  [NoResp EXCEPT !.op = "start", !.code = code, !.status = status,
                 !.totalProspects = n]

\* the row list a caller posts after writing the rowIndex of the first row
\* into the last one
RepeatIndex(prospects) ==
  IF Len(prospects) < 2 THEN prospects
  ELSE [prospects EXCEPT ![Len(prospects)].rowIndex = prospects[1].rowIndex]

\* JSON.parse(prospectsJson) when the value is an array
PostedRows(req) ==
  IF req.json = "array" THEN validateAndParseCSV(req.n, req.invalid)
  ELSE IF req.json = "array, index repeated"
    THEN RepeatIndex(validateAndParseCSV(req.n, req.invalid))
  ELSE << >>

\* the JSON type of what the route stores
StoredJson(req) ==
  IF req.json \in {"array", "array, index repeated"} THEN "array" ELSE req.json

StartJob(j, req) ==
  LET code == ValidateStart(req, MAX_START_PROSPECTS) IN
  IF code # 0 THEN Outcome(j, ErrorResp("start", code), << >>, << >>)
  ELSE IF req.styleSlug \notin Styles
    THEN Outcome(j, ErrorResp("start", 404), << >>, << >>)
  ELSE LET prospects == PostedRows(req)
       IN Outcome([ status          |-> "pending",
                    total_prospects |-> req.n,
                    processed_count |-> 0,
                    success_count   |-> 0,
                    failed_count    |-> 0,
                    style_slug      |-> req.styleSlug,
                    completed_at    |-> "null",
                    prospects_json  |-> StoredJson(req),
                    prospects_data  |-> prospects ],
                  StartResp(200, "pending", req.n),
                  << >>, << >>)

(***************************************************************************)
(* POST /api/bulk/start (synchronous variant): the first                   *)
(* SYNC_PROCESS_LIMIT rows are processed one after the other, whatever     *)
(* their status, and the job is inserted as completed.                     *)
(***************************************************************************)
SyncRow(prospect, result) ==
  IF result.status = "fulfilled"
  THEN [ prospect EXCEPT !.generatedEmail1 = result.value[1],
                         !.generatedEmail2 = result.value[2],
                         !.generatedEmail3 = result.value[3],
                         !.status = "completed" ]
  ELSE [ prospect EXCEPT !.status = "failed",
                         !.error = IF Truthy(result.reason) THEN result.reason
                                   ELSE Text(prospect.rowIndex, "Processing failed") ]

\* prospects.slice(0, Math.min(prospects.length, SYNC_PROCESS_LIMIT)) of an
\* accepted request; empty for a rejected one
SyncRows(req) ==
  IF ValidateStart(req, MAX_SYNC_PROSPECTS) # 0 \/ req.styleSlug \notin Styles
  THEN << >>
  ELSE Slice(validateAndParseCSV(req.n, req.invalid), 1,
             Min(req.n, SYNC_PROCESS_LIMIT))

StartSyncJob(j, req, gens) ==
  LET code == ValidateStart(req, MAX_SYNC_PROSPECTS) IN
  IF code # 0 THEN Outcome(j, ErrorResp("start-sync", code), << >>, << >>)
  ELSE IF req.styleSlug \notin Styles
    THEN Outcome(j, ErrorResp("start-sync", 404), << >>, << >>)
  ELSE LET parsed == validateAndParseCSV(req.n, req.invalid)
           limit == Min(Len(parsed), SYNC_PROCESS_LIMIT)
           results == [ i \in 1..limit |-> processProspect(parsed[i], gens[i]) ]
           prospects == [ i \in 1..Len(parsed) |->
                            IF i <= limit THEN SyncRow(parsed[i], results[i])
                            ELSE parsed[i] ]
           successCount ==
             Cardinality({ i \in 1..limit : results[i].status = "fulfilled" })
           failedCount ==
             Cardinality({ i \in 1..limit : results[i].status # "fulfilled" })
       IN Outcome([ status          |-> "completed",
                    total_prospects |-> Len(prospects),
                    processed_count |-> limit,
                    success_count   |-> successCount,
                    failed_count    |-> failedCount,
                    style_slug      |-> req.styleSlug,
                    completed_at    |-> "set",
                    prospects_json  |-> "array",
                    prospects_data  |-> prospects ],
                  [ NoResp EXCEPT !.op = "start-sync", !.code = 200,
                      !.status = "completed", !.totalProspects = Len(prospects),
                      !.processedCount = limit, !.successCount = successCount,
                      !.failedCount = failedCount ],
                  << >>, << >>)

(***************************************************************************)
(* POST /api/bulk/regenerate: reset for regeneration under a new style     *)
(***************************************************************************)
\* mutant: the error text survives the reset
ResetRowKeepsError(p) ==
  [ p EXCEPT !.status = "pending",
             !.generatedEmail1 = Undef,
             !.generatedEmail2 = Undef,
             !.generatedEmail3 = Undef ]

ResetRow(p) ==
  [ p EXCEPT !.status = "pending",
             !.generatedEmail1 = Undef,
             !.generatedEmail2 = Undef,
             !.generatedEmail3 = Undef,
             !.error = Undef ]

ResetJob(j, styleSlug) ==
  IF styleSlug = "" THEN Outcome(j, ErrorResp("reset", 400), << >>, << >>)
  ELSE IF j.status = "none" THEN Outcome(j, ErrorResp("reset", 404), << >>, << >>)
  ELSE IF j.prospects_json # "array"
    THEN Outcome(j, ErrorResp("reset", 500), << >>, << >>)
  ELSE LET prospects == [ i \in 1..Len(j.prospects_data) |-> ResetRow(j.prospects_data[i]) ]
       IN Outcome([ j EXCEPT !.status = "pending",
                             !.style_slug = styleSlug,
                             !.processed_count = 0,
                             !.success_count = 0,
                             !.failed_count = 0,
                             !.prospects_data = prospects,
                             !.completed_at = "null" ],
                  [NoResp EXCEPT !.op = "reset", !.code = 200,
                                 !.styleSlug = styleSlug,
                                 !.totalProspects = Len(prospects)],
                  << >>, << >>)

(***************************************************************************)
(* GET /api/bulk/download: generateOutputCSV                               *)
(***************************************************************************)
\* escapeCSV: '' for a falsy value; a generated email always holds a
\* newline ("Subject: ..\n\n..") and is therefore quoted
escapeCSV(v) ==
  IF ~Truthy(v) THEN [text |-> EmptyStr, quoted |-> FALSE]
  ELSE [text |-> v, quoted |-> TRUE]

\* mutant: the third output column written from the second email
DataRowRepeatsEmail2(prospect) ==
  [ input  |-> prospect.input,
    email1 |-> escapeCSV(OrEmpty(prospect.generatedEmail1)),
    email2 |-> escapeCSV(OrEmpty(prospect.generatedEmail2)),
    email3 |-> escapeCSV(OrEmpty(prospect.generatedEmail2)) ]

DataRow(prospect) ==
  [ input  |-> prospect.input,
    email1 |-> escapeCSV(OrEmpty(prospect.generatedEmail1)),
    email2 |-> escapeCSV(OrEmpty(prospect.generatedEmail2)),
    email3 |-> escapeCSV(OrEmpty(prospect.generatedEmail3)) ]

generateOutputCSV(prospects) ==
  [ i \in 1..Len(prospects) |-> DataRow(prospects[i]) ]

\* mutant: the export is refused until the job is completed
DownloadJobWhenCompleted(j) ==
  IF j.status = "none" THEN Outcome(j, ErrorResp("download", 404), << >>, << >>)
  ELSE IF j.status # "completed" \/ j.prospects_json # "array"
    THEN Outcome(j, ErrorResp("download", 500), << >>, << >>)
  ELSE Outcome(j,
               [NoResp EXCEPT !.op = "download", !.code = 200,
                              !.table = generateOutputCSV(j.prospects_data)],
               << >>, << >>)

DownloadJob(j) ==
  IF j.status = "none" THEN Outcome(j, ErrorResp("download", 404), << >>, << >>)
  ELSE IF j.prospects_json # "array"
    THEN Outcome(j, ErrorResp("download", 500), << >>, << >>)
  ELSE Outcome(j,
               [NoResp EXCEPT !.op = "download", !.code = 200,
                              !.table = generateOutputCSV(j.prospects_data)],
               << >>, << >>)

(***************************************************************************)
(* GET /api/bulk/status                                                    *)
(***************************************************************************)
StatusJob(j) ==
  IF j.status = "none" THEN Outcome(j, ErrorResp("status", 404), << >>, << >>)
  ELSE Outcome(j,
               [NoResp EXCEPT !.op = "status", !.code = 200,
                              !.status = j.status,
                              !.totalProspects = j.total_prospects,
                              !.processedCount = j.processed_count,
                              !.successCount = j.success_count,
                              !.failedCount = j.failed_count],
               << >>, << >>)

(***************************************************************************)
(* The Progress Client: the BulkProgress component and the page that       *)
(* mounts it.  mounted and isProcessing are the two refs of the component, *)
(* isComplete and error its state; requests counts the chunk requests      *)
(* awaiting their response and timers the pending setTimeout callbacks;    *)
(* sent counts the requests issued and last tells what the last call of    *)
(* processNextChunk did.  bulkState is the state of the page, and stale    *)
(* holds when the page has rendered again, handing the component a new     *)
(* onComplete, and the effect has not run again yet.                       *)
(***************************************************************************)
NoClient ==
  [ alive |-> FALSE, mounted |-> FALSE, isProcessing |-> FALSE,
    requests |-> 0, timers |-> 0, sent |-> 0, last |-> "none",
    isComplete |-> FALSE, error |-> FALSE,
    bulkState |-> "form", stale |-> FALSE, renders |-> 0 ]

\* mutant: no guard flag, only the mounted test
processNextChunkUnguarded(c) ==
  IF ~c.mounted THEN [c EXCEPT !.last = "skipped"]
  ELSE [c EXCEPT !.isProcessing = TRUE, !.requests = @ + 1, !.sent = @ + 1,
                 !.last = "sent"]

\* lines 32-44: the call up to the await of fetch
processNextChunk(c) ==
  IF c.isProcessing \/ ~c.mounted THEN [c EXCEPT !.last = "skipped"]
  ELSE [c EXCEPT !.isProcessing = TRUE, !.requests = @ + 1, !.sent = @ + 1,
                 !.last = "sent"]

\* handleBulkComplete: the page renders again when its state changes
onComplete(c) ==
  [c EXCEPT !.bulkState = "complete", !.stale = @ \/ c.bulkState # "complete"]

\* lines 46-88: the call from the response on; the finally block clears the
\* guard flag on every path
Continue(c, rsp) ==
  LET got == [c EXCEPT !.requests = @ - 1, !.isProcessing = FALSE] IN
  IF ~c.mounted THEN got
  ELSE IF rsp.code # 200 THEN [got EXCEPT !.error = TRUE]
  ELSE IF rsp.isComplete \/ rsp.status = "completed"
    THEN onComplete([got EXCEPT !.isComplete = TRUE])
  ELSE [got EXCEPT !.timers = @ + 1]

\* the effect: mountedRef set and processNextChunk called
RunEffect(c) == processNextChunk([c EXCEPT !.mounted = TRUE, !.stale = FALSE])

\* the cleanup of the effect
Cleanup(c) == [c EXCEPT !.mounted = FALSE]

(***************************************************************************)
(* State                                                                   *)
(***************************************************************************)
VARIABLES
  store,       \* the persisted job (NoJob before a job is created)
  resp,        \* the response of the last request
  job,         \* the snapshot the last chunk invocation loaded
  dispatched,  \* the sub-batches (row indexes) the last invocation dispatched
  settled,     \* their settled results, sub-batch by sub-batch
  created,     \* the row collection as inserted at job creation
  calls,       \* chunk calls since creation or reset, up to the completing one
  firstDone,   \* the first chunk response with isComplete since then
  request,     \* the last job-creation request received
  env,         \* what the environment did during the last chunk invocation
  inflight,    \* the chunk invocations under way, each with the job it loaded
  client       \* the Progress Client component of the job and its parent page

vars ==
  <<store, resp, job, dispatched, settled, created, calls, firstDone, request,
    env, inflight, client>>

Init ==
  /\ store = NoJob
  /\ resp = NoResp
  /\ job = NoJob
  /\ dispatched = << >>
  /\ settled = << >>
  /\ created = << >>
  /\ calls = 0
  /\ firstDone = NoResp
  /\ request = NoRequest
  /\ env = NoEnv
  /\ inflight = [ i \in Invocations |-> Idle ]
  /\ client = NoClient

(***************************************************************************)
(* Inputs                                                                  *)
(***************************************************************************)
StartStyles == {"style-a", "no-such-style"}
RowCounts == (0..MaxRows) \cup {MAX_START_PROSPECTS + 1}

StartRequests ==
  { Request(RequiredFields \ {f}, "array", 1, {}, "style-a") : f \in RequiredFields }
  \cup { Request(RequiredFields, "malformed", 0, {}, "style-a") }
  \cup { Request(RequiredFields, "array", rq[1], rq[2], rq[3]) :
           rq \in { x \in RowCounts \X (SUBSET (1..MaxInvalid)) \X StartStyles :
                      x[2] \subseteq 1..x[1] } }

\* short uploads, one upload longer than the synchronous limit, and one
\* upload longer than the route accepts
SyncRowCounts ==
  (0..MaxSyncRows) \cup {SYNC_PROCESS_LIMIT + 1, MAX_SYNC_PROSPECTS + 1}

SyncRequests ==
  { Request(RequiredFields \ {f}, "array", 1, {}, "style-a") : f \in RequiredFields }
  \cup { Request(RequiredFields, "malformed", 0, {}, "style-a") }
  \cup { Request(RequiredFields, "array", rq[1], rq[2], rq[3]) :
           rq \in { x \in SyncRowCounts \X (SUBSET (1..MaxInvalid)) \X StartStyles :
                      x[2] \subseteq 1..x[1] } }

\* short uploads for the runs in which collaborators and store misbehave
FaultRequests ==
  { Request(RequiredFields, "array", n, invalid, "style-a") :
      n \in 1..MaxFaultRows, invalid \in SUBSET (1..MaxInvalid) }
  \cup { Request(RequiredFields, "string", MaxFaultRows, {}, "style-a") }

\* very short uploads for the runs with invocations under way
RaceRequests ==
  { Request(RequiredFields, "array", n, {}, "style-a") : n \in 1..MaxRaceRows }

\* the example job of the specification: ScenarioRows rows
ScenarioRequests ==
  { Request(RequiredFields, "array", ScenarioRows, invalid, "style-a") :
      invalid \in SUBSET (1..MaxInvalid) }

\* the uploads of the runs with a Progress Client: a job of one chunk, a job
\* of two chunks, and a job whose stored data is not a row list
ClientRequests ==
  { Request(RequiredFields, "array", n, {}, "style-a") : n \in {1, CHUNK_SIZE + 1} }
  \cup { Request(RequiredFields, "string", 1, {}, "style-a") }

\* short row lists posted by a caller other than the upload form
PostedRequests ==
  { Request(RequiredFields, json, n, {}, "style-a") :
      json \in {"array", "array, index repeated"}, n \in 1..MaxFaultRows }

\* The data lines whose generation call may fail or come back short; the
\* generation call of every other line returns the nominal response.
FlakyLines == {2, 3, 7, 11}

\* the generation outcomes the collaborator can produce for the rows of a
\* chunk, one per row
ChunkOutcomes(chunk) ==
  LET flaky == { k \in 1..Len(chunk) : chunk[k].input.line \in FlakyLines }
  IN { [ k \in 1..Len(chunk) |-> IF k \in flaky THEN g[k] ELSE NominalResponse ] :
         g \in [ flaky -> DeviantResponses \cup {NominalResponse} ] }

\* the outcomes of the runs with invocations under way: a generation call
\* returns the nominal response or throws
RaceOutcomes(chunk) ==
  { gens \in ChunkOutcomes(chunk) :
      \A k \in 1..Len(chunk) : gens[k] \in {NominalResponse, GenThrow} }

\* the same outcomes with the websites of some rows of the chunk out of reach
SiteDownOutcomes(chunk) ==
  { [ k \in 1..Len(chunk) |-> IF k \in down THEN SiteDown(gens[k]) ELSE gens[k] ] :
      gens \in ChunkOutcomes(chunk), down \in (SUBSET (1..Len(chunk))) \ {{}} }

\* the same outcomes with the pipelines of the chunk settling in any order
Orders(n) ==
  { f \in [ 1..n -> 1..n ] : \A a, b \in 1..n : a # b => f[a] # f[b] }

AnyOrderOutcomes(chunk) ==
  { [ k \in 1..Len(chunk) |-> SettlesAt(gens[k], order[k]) ] :
      gens \in ChunkOutcomes(chunk), order \in Orders(Len(chunk)) }

\* the rows the chunked route selects from the loaded job: none for a
\* terminal job
ChunkOf(j) ==
  IF j.status \in {"completed", "cancelled", "none"} THEN << >>
  ELSE IF j.prospects_json # "array" THEN << >>
  ELSE Slice(FilterStatus(CoerceStatus(j.prospects_data), "pending"), 1, CHUNK_SIZE)

(***************************************************************************)
(* Actions                                                                 *)
(***************************************************************************)
NoInvocation ==
  /\ job' = NoJob
  /\ dispatched' = << >>
  /\ settled' = << >>
  /\ env' = NoEnv
  /\ UNCHANGED <<inflight, client>>

CreateJobFrom(requests) ==
  /\ store.status = "none"
  /\ \E req \in requests :
       LET out == StartJob(store, req) IN
       /\ store' = out.store
       /\ resp' = out.resp
       /\ created' = out.store.prospects_data
       /\ request' = req
  /\ NoInvocation
  /\ UNCHANGED <<calls, firstDone>>

CreateJob == CreateJobFrom(StartRequests)

CreateScenarioJob == CreateJobFrom(ScenarioRequests)

CreateFaultJob == CreateJobFrom(FaultRequests)

CreateRaceJob == CreateJobFrom(RaceRequests)

\* lines 28-51: the invocation loads the job; a terminal job is answered at
\* once
LoadJob(i) ==
  /\ inflight[i].phase = "idle"
  /\ store.status # "none"
  /\ IF store.status \in {"completed", "cancelled"}
     THEN /\ resp' = TerminalBranch(store).resp
          /\ job' = store
          /\ dispatched' = << >>
          /\ settled' = << >>
          /\ env' = NoEnv
          /\ UNCHANGED inflight
     ELSE /\ inflight' = [inflight EXCEPT ![i] = [phase |-> "loaded", job |-> store]]
          /\ UNCHANGED <<resp, job, dispatched, settled, env>>
  /\ UNCHANGED <<store, created, calls, firstDone, request, client>>

\* lines 132-138: the status write of an invocation that loaded a pending job
MarkWrite(i) ==
  /\ inflight[i].phase = "loaded"
  /\ store' = WriteProcessing(store, inflight[i].job)
  /\ inflight' = [inflight EXCEPT ![i].phase = "marked"]
  /\ UNCHANGED <<resp, job, dispatched, settled, created, calls, firstDone,
                 request, env, client>>

\* lines 140-249: the rows are processed and the last update is written
FinishChunk(i) ==
  /\ inflight[i].phase = "marked"
  /\ LET j == inflight[i].job IN
     \E gens \in RaceOutcomes(ChunkOf(j)) :
       LET out == ProcessChunk(j, gens) IN
       /\ store' = WriteFinal(store, j, out)
       /\ resp' = out.resp
       /\ job' = j
       /\ dispatched' = out.dispatched
       /\ settled' = out.settled
       /\ env' = EnvAt(gens, StatusWrites(j, out, {}), store)
  /\ inflight' = [inflight EXCEPT ![i] = Idle]
  /\ UNCHANGED <<created, calls, firstDone, request, client>>

CreateJobSync ==
  /\ store.status = "none"
  /\ \E req \in SyncRequests :
       \E gens \in ChunkOutcomes(SyncRows(req)) :
         LET out == StartSyncJob(store, req, gens) IN
         /\ store' = out.store
         /\ resp' = out.resp
         /\ created' = validateAndParseCSV(IF out.resp.code = 200 THEN req.n ELSE 0,
                                           req.invalid)
         /\ request' = req
  /\ NoInvocation
  /\ UNCHANGED <<calls, firstDone>>

\* one whole invocation of the chunked route on the stored job
ChunkCall(gens, failing) ==
  LET out == ProcessChunk(store, gens)
      counted == firstDone.op = "none"
  IN
  /\ calls < MaxCalls
  /\ store' = Persist(store, out, failing)
  /\ resp' = out.resp
  /\ job' = store
  /\ dispatched' = out.dispatched
  /\ settled' = out.settled
  /\ env' = Env(failing, gens, StatusWrites(store, out, failing))
  /\ calls' = IF counted THEN calls + 1 ELSE calls
  /\ firstDone' = IF counted /\ out.resp.isComplete THEN out.resp ELSE firstDone
  /\ UNCHANGED <<created, request, inflight>>

\* every store operation succeeds
ProcessNextChunk ==
  /\ store.status # "none"
  /\ \E gens \in ChunkOutcomes(ChunkOf(store)) : ChunkCall(gens, {})
  /\ UNCHANGED client

\* the research collaborator fails for at least one row of the chunk
ProcessNextChunkSiteDown ==
  /\ store.status # "none"
  /\ \E gens \in SiteDownOutcomes(ChunkOf(store)) : ChunkCall(gens, {})
  /\ UNCHANGED client

\* the pipelines of the chunk settle in any order
ProcessNextChunkAnyOrder ==
  /\ store.status # "none"
  /\ \E gens \in AnyOrderOutcomes(ChunkOf(store)) : ChunkCall(gens, {})
  /\ UNCHANGED client

\* the store refuses at least one write of the invocation
ProcessNextChunkStoreDown ==
  /\ store.status # "none"
  /\ \E failing \in (SUBSET StoreWrites) \ {{}} :
       \E gens \in ChunkOutcomes(ChunkOf(store)) : ChunkCall(gens, failing)
  /\ UNCHANGED client

ProcessUnknownJob ==
  /\ store.status = "none"
  /\ resp' = ProcessChunk(store, << >>).resp
  /\ NoInvocation
  /\ UNCHANGED <<store, created, calls, firstDone, request>>

\* the rows the all-at-once route selects from the loaded job
AllOf(j) ==
  IF j.status \in {"completed", "cancelled", "none"} THEN << >>
  ELSE IF j.prospects_json # "array" \/ j.style_slug \notin Styles THEN << >>
  ELSE FilterStatus(j.prospects_data, "pending")

ProcessAllLegacy ==
  /\ store.status # "none"
  /\ \E gens \in ChunkOutcomes(AllOf(store)) :
       LET out == ProcessAll(store, gens, Styles) IN
       /\ store' = out.store
       /\ resp' = out.resp
       /\ job' = store
       /\ dispatched' = out.dispatched
       /\ settled' = out.settled
       /\ env' = Env({}, gens, AllStatusWrites(store, out))
  /\ UNCHANGED <<created, calls, firstDone, request, inflight, client>>

\* the regenerate route does not look the style up
ResetUnknownStyle ==
  /\ LET out == ResetJob(store, "no-such-style") IN
       /\ store' = out.store
       /\ resp' = out.resp
       /\ calls' = IF out.resp.code = 200 THEN 0 ELSE calls
       /\ firstDone' = IF out.resp.code = 200 THEN NoResp ELSE firstDone
  /\ NoInvocation
  /\ UNCHANGED <<created, request>>

Reset ==
  /\ \E styleSlug \in Styles \cup {""} :
       LET out == ResetJob(store, styleSlug) IN
       /\ store' = out.store
       /\ resp' = out.resp
       /\ calls' = IF out.resp.code = 200 THEN 0 ELSE calls
       /\ firstDone' = IF out.resp.code = 200 THEN NoResp ELSE firstDone
  /\ NoInvocation
  /\ UNCHANGED <<created, request>>

ExportResults ==
  /\ LET out == DownloadJob(store) IN
       /\ store' = out.store
       /\ resp' = out.resp
  /\ NoInvocation
  /\ UNCHANGED <<created, calls, firstDone, request>>

GetStatus ==
  /\ LET out == StatusJob(store) IN
       /\ store' = out.store
       /\ resp' = out.resp
  /\ NoInvocation
  /\ UNCHANGED <<created, calls, firstDone, request>>

\* the out-of-band administrative override: a non-terminal job is marked
\* cancelled directly in the store; no route answers
AdminCancel ==
  /\ store.status \in {"pending", "processing"}
  /\ store' = [store EXCEPT !.status = "cancelled"]
  /\ resp' = [NoResp EXCEPT !.op = "admin-cancel"]
  /\ NoInvocation
  /\ UNCHANGED <<created, calls, firstDone, request>>

CreateClientJob == CreateJobFrom(ClientRequests)

CreatePostedJob == CreateJobFrom(PostedRequests)

\* handleBulkSubmit after a successful start: the page shows the component
\* and its effect runs
MountClient ==
  /\ client = NoClient
  /\ resp.op = "start" /\ resp.code = 200
  /\ client' = RunEffect([client EXCEPT !.alive = TRUE, !.bulkState = "processing"])
  /\ UNCHANGED <<store, resp, job, dispatched, settled, created, calls,
                 firstDone, request, env, inflight>>

\* the page renders again while the component is shown: the component is
\* handed a new onComplete
ParentRender ==
  /\ client.alive /\ ~client.stale
  /\ client.renders < MaxRenders
  /\ client' = [client EXCEPT !.stale = TRUE, !.renders = @ + 1]
  /\ UNCHANGED <<store, resp, job, dispatched, settled, created, calls,
                 firstDone, request, env, inflight>>

\* lines 94-97 and 29-92: a dependency of the effect changed, the cleanup
\* runs and then the effect
RerunEffect ==
  /\ client.alive /\ client.stale
  /\ client' = RunEffect(Cleanup(client))
  /\ UNCHANGED <<store, resp, job, dispatched, settled, created, calls,
                 firstDone, request, env, inflight>>

\* the route handles a request of the client and the client receives the
\* response
ReceiveResponse ==
  /\ client.requests > 0
  /\ \E gens \in ChunkOutcomes(ChunkOf(store)) : ChunkCall(gens, {})
  /\ client' = Continue(client, resp')

\* fetch rejects: the request got no response
FetchFails ==
  /\ client.requests > 0
  /\ resp' = ErrorResp("process", 0)
  /\ client' = Continue(client, resp')
  /\ job' = NoJob
  /\ dispatched' = << >>
  /\ settled' = << >>
  /\ env' = NoEnv
  /\ UNCHANGED <<store, created, calls, firstDone, request, inflight>>

\* lines 74-78: a timer set after an incomplete response fires
TimerFires ==
  /\ client.timers > 0
  /\ client' = IF client.mounted
                THEN processNextChunk([client EXCEPT !.timers = @ - 1])
                ELSE [client EXCEPT !.timers = @ - 1, !.last = "skipped"]
  /\ UNCHANGED <<store, resp, job, dispatched, settled, created, calls,
                 firstDone, request, env, inflight>>

\* handleBulkReset: the page removes the component, the cleanup runs
UnmountClient ==
  /\ client.alive
  /\ client' = [Cleanup(client) EXCEPT !.alive = FALSE, !.stale = FALSE,
                                       !.bulkState = "form"]
  /\ UNCHANGED <<store, resp, job, dispatched, settled, created, calls,
                 firstDone, request, env, inflight>>

Next ==
  \/ CreateJob
  \/ ProcessNextChunk
  \/ ProcessUnknownJob
  \/ Reset
  \/ ExportResults
  \/ GetStatus
  \/ AdminCancel

Spec == Init /\ [][Next]_vars

\* the example job of the specification, driven chunk by chunk
NextScenario ==
  \/ CreateScenarioJob
  \/ ProcessNextChunk
  \/ Reset
  \/ AdminCancel

SpecScenario == Init /\ [][NextScenario]_vars

\* both variants of the start route in front of the same store
NextLegacy ==
  \/ CreateJob
  \/ CreateJobSync
  \/ ProcessNextChunk
  \/ ExportResults

SpecLegacy == Init /\ [][NextLegacy]_vars

\* the chunked route with a store that may refuse writes
NextFaults ==
  \/ CreateFaultJob
  \/ ProcessNextChunk
  \/ ProcessNextChunkStoreDown
  \/ Reset
  \/ AdminCancel

SpecFaults == Init /\ [][NextFaults]_vars

\* both process routes, the reads and the reset on short uploads
NextRoutes ==
  \/ CreateFaultJob
  \/ ProcessNextChunk
  \/ ProcessNextChunkSiteDown
  \/ ProcessAllLegacy
  \/ Reset
  \/ ResetUnknownStyle
  \/ ExportResults
  \/ GetStatus
  \/ AdminCancel

SpecRoutes == Init /\ [][NextRoutes]_vars

\* chunk invocations that overlap each other, a cancellation or a reset
NextRace ==
  \/ CreateRaceJob
  \/ \E i \in Invocations : LoadJob(i)
  \/ \E i \in Invocations : MarkWrite(i)
  \/ \E i \in Invocations : FinishChunk(i)
  \/ AdminCancel
  \/ Reset

SpecRace == Init /\ [][NextRace]_vars

\* both process routes in front of uploads of every length
NextAllAtOnce ==
  \/ CreateJob
  \/ ProcessNextChunk
  \/ ProcessAllLegacy

SpecAllAtOnce == Init /\ [][NextAllAtOnce]_vars

\* the chunked route with pipelines that settle out of order, on short
\* uploads
NextOrder ==
  \/ CreateFaultJob
  \/ ProcessNextChunkAnyOrder
  \/ Reset

SpecOrder == Init /\ [][NextOrder]_vars

\* a job driven by its Progress Client
NextClient ==
  \/ CreateClientJob
  \/ MountClient
  \/ ParentRender
  \/ RerunEffect
  \/ ReceiveResponse
  \/ FetchFails
  \/ TimerFires
  \/ UnmountClient

SpecClient == Init /\ [][NextClient]_vars

\* the chunked routes in front of any caller of the start route
NextPosted ==
  \/ CreatePostedJob
  \/ ProcessNextChunk
  \/ Reset

SpecPosted == Init /\ [][NextPosted]_vars

(***************************************************************************)
(* Properties                                                              *)
(***************************************************************************)
Rows == store.prospects_data

RECURSIVE Flatten(_)
Flatten(seqs) == IF seqs = << >> THEN << >> ELSE Head(seqs) \o Flatten(Tail(seqs))

\* the row carrying a stable index
RowOf(prospects, rowIndex) ==
  prospects[CHOOSE i \in 1..Len(prospects) : prospects[i].rowIndex = rowIndex]

ChunkCallDone == resp.op = "process" /\ resp.code = 200

\* C1: in every persisted job state, processedCount equals successCount +
\* failedCount and does not exceed totalProspects.
C1_CounterInvariant ==
  store.status # "none" =>
    /\ store.processed_count = store.success_count + store.failed_count
    /\ store.processed_count <= store.total_prospects

\* a job reset to the other style and then driven to completion over two
\* chunks with failures among its rows
C1_Witness ==
  /\ store.status = "completed"
  /\ store.style_slug = "style-b"
  /\ store.total_prospects = 11
  /\ store.processed_count = 11
  /\ store.failed_count = 2

\* C2: the chunk call that first reports isComplete for a job driven to
\* completion reports processedCount equal to the number of rows the job
\* was created with, after at least ceil(N / 10) calls.
C2_CompletesWithAllRows ==
  (firstDone.op = "process" /\ firstDone.status = "completed") =>
    /\ firstDone.processedCount = store.total_prospects
    /\ calls * CHUNK_SIZE >= store.total_prospects

\* C3: a chunk call that loads a completed or cancelled job dispatches no
\* row, writes nothing, and answers isComplete with remainingCount 0 and
\* the stored counters.
C3_TerminalNoOp ==
  (ChunkCallDone /\ job.status \in {"completed", "cancelled"}) =>
    /\ store = job
    /\ dispatched = << >>
    /\ resp.isComplete
    /\ resp.remainingCount = 0
    /\ resp.processedCount = job.processed_count
    /\ resp.successCount = job.success_count
    /\ resp.failedCount = job.failed_count

\* a chunk call on a job cancelled half way, with rows still pending
C3_Witness ==
  /\ ChunkCallDone
  /\ job.status = "cancelled"
  /\ job.processed_count = 10
  /\ CountStatus(job.prospects_data, "pending") = 1

\* C4: every chunk call after the first one that reported isComplete
\* reports the same three counters as that call.
C4_SameTerminalCounters ==
  (ChunkCallDone /\ firstDone.op = "process") =>
    /\ resp.processedCount = firstDone.processedCount
    /\ resp.successCount = firstDone.successCount
    /\ resp.failedCount = firstDone.failedCount

\* C5: after a chunk call, exactly the dispatched rows whose pipeline threw
\* are failed, every other dispatched row is completed, and failedCount and
\* successCount grew by exactly those numbers.
C5_PartialFailureIsolation ==
  (ChunkCallDone /\ dispatched # << >>) =>
    LET rows == Flatten(dispatched)
        results == Flatten(settled)
        thrown == { i \in 1..Len(rows) : results[i].status = "rejected" }
    IN /\ Len(results) = Len(rows)
       /\ \A i \in 1..Len(rows) :
            RowOf(Rows, rows[i]).status =
              IF i \in thrown THEN "failed" ELSE "completed"
       /\ store.failed_count = job.failed_count + Cardinality(thrown)
       /\ store.success_count = job.success_count + Len(rows) - Cardinality(thrown)

\* two rows of the first sub-batch throw and their siblings complete
C5_Witness ==
  /\ ChunkCallDone
  /\ Len(settled) = 2
  /\ Len(settled[1]) = 5
  /\ Len(settled[2]) = 5
  /\ settled[1][2].status = "rejected"
  /\ settled[1][3].status = "rejected"
  /\ settled[1][4].status = "fulfilled"
  /\ settled[2][2].status = "rejected"
  /\ store.failed_count = 3
  /\ store.success_count = 7

\* C6: every row keeps the stable index and the input fields it was created
\* with, every text a row carries was produced for that row, and the result
\* settled for row i is what row i holds.
C6_RowIdentityStable ==
  store.status # "none" =>
    /\ Len(Rows) = Len(created)
    /\ \A i \in 1..Len(Rows) :
         /\ Rows[i].rowIndex = created[i].rowIndex
         /\ Rows[i].input = created[i].input
         /\ \A v \in { Rows[i].generatedEmail1, Rows[i].generatedEmail2,
                        Rows[i].generatedEmail3, Rows[i].error } :
              Truthy(v) => v.for = Rows[i].rowIndex
    /\ ChunkCallDone =>
         LET rows == Flatten(dispatched)
             results == Flatten(settled)
         IN \A i \in 1..Len(rows) :
              LET p == RowOf(Rows, rows[i]) IN
              IF results[i].status = "fulfilled"
              THEN << p.generatedEmail1, p.generatedEmail2, p.generatedEmail3 >>
                     = results[i].value
              ELSE p.error = results[i].reason

\* the second chunk of a job that was reset after its first run, with a
\* row of the collection failed
C6_Witness ==
  /\ ChunkCallDone
  /\ store.style_slug = "style-b"
  /\ Len(created) = 11
  /\ job.processed_count = 10
  /\ Len(dispatched) = 1
  /\ store.failed_count > 0

\* C7: after a successful Reset the job is pending, every row is pending
\* without outputs or error, the counters are zero, the completion
\* timestamp is cleared and the style is the requested one.
C7_ResetClearsState ==
  (resp.op = "reset" /\ resp.code = 200) =>
    /\ store.status = "pending"
    /\ store.processed_count = 0
    /\ store.success_count = 0
    /\ store.failed_count = 0
    /\ store.completed_at = "null"
    /\ store.style_slug = resp.styleSlug
    /\ resp.styleSlug # ""
    /\ \A i \in 1..Len(Rows) :
         /\ Rows[i].status = "pending"
         /\ Rows[i].generatedEmail1 = Undef
         /\ Rows[i].generatedEmail2 = Undef
         /\ Rows[i].generatedEmail3 = Undef
         /\ Rows[i].error = Undef

\* a reset to the other style of an eleven-row job that held a row
\* rejected at ingestion
C7_Witness ==
  /\ resp.op = "reset"
  /\ resp.code = 200
  /\ store.style_slug = "style-b"
  /\ Len(Rows) = 11
  /\ \E i \in 1..Len(Rows) : ~Rows[i].input.ok

AllCompleted ==
  /\ Len(Rows) > 0
  /\ \A i \in 1..Len(Rows) : Rows[i].status = "completed"

ExportDone == resp.op = "download" /\ resp.code = 200

\* C8 as stated: the export of a job whose rows are all completed has
\* totalProspects data rows and all three output columns non-empty.
C8_AllOutputsNonEmpty ==
  (ExportDone /\ AllCompleted) =>
    /\ Len(resp.table) = store.total_prospects
    /\ \A i \in 1..Len(resp.table) :
         /\ Truthy(resp.table[i].email1.text)
         /\ Truthy(resp.table[i].email2.text)
         /\ Truthy(resp.table[i].email3.text)

\* C8 amended: the export of a job whose rows are all completed has
\* totalProspects data rows, each with its row's input fields, and an
\* output column is non-empty exactly when the row's stored email of that
\* position is, and then holds that email.
C8_OutputsMatchStoredEmails ==
  (ExportDone /\ AllCompleted) =>
    /\ Len(resp.table) = store.total_prospects
    /\ \A i \in 1..Len(resp.table) :
         /\ resp.table[i].input = Rows[i].input
         /\ Truthy(resp.table[i].email1.text) <=> Truthy(Rows[i].generatedEmail1)
         /\ Truthy(resp.table[i].email2.text) <=> Truthy(Rows[i].generatedEmail2)
         /\ Truthy(resp.table[i].email3.text) <=> Truthy(Rows[i].generatedEmail3)
         /\ Truthy(Rows[i].generatedEmail1) => resp.table[i].email1.text = Rows[i].generatedEmail1
         /\ Truthy(Rows[i].generatedEmail2) => resp.table[i].email2.text = Rows[i].generatedEmail2
         /\ Truthy(Rows[i].generatedEmail3) => resp.table[i].email3.text = Rows[i].generatedEmail3

\* the export of an eleven-row job, all rows completed, one of them with
\* only two emails recovered
C8_Witness ==
  /\ ExportDone
  /\ AllCompleted
  /\ Len(resp.table) = 11
  /\ \E i \in 1..Len(Rows) :
       Truthy(Rows[i].generatedEmail2) /\ ~Truthy(Rows[i].generatedEmail3)

\* C9: a chunk call that loads a non-terminal job with P > 0 pending rows
\* moves exactly the first min(10, P) pending rows out of pending, adds
\* min(10, P) to processedCount, and reports remainingCount P - min(10, P)
\* and isComplete exactly when that is 0; a job created all pending reports
\* N - 10 * c rows remaining on its c-th call (15, 5, 0 for 25 rows).
C9_ChunkAdvance ==
  LET pend == FilterStatus(job.prospects_data, "pending")
      P == Len(pend)
      m == Min(10, P)
      left == Len(created) - 10 * calls
  IN (ChunkCallDone /\ job.status \in {"pending", "processing"} /\ P > 0) =>
       /\ CHUNK_SIZE = 10
       /\ { job.prospects_data[i].rowIndex :
              i \in { k \in 1..Len(Rows) : job.prospects_data[k].status = "pending"
                                            /\ Rows[k].status # "pending" } }
            = { pend[i].rowIndex : i \in 1..m }
       /\ \A k \in 1..Len(Rows) :
            job.prospects_data[k].status # "pending" => Rows[k] = job.prospects_data[k]
       /\ store.processed_count = job.processed_count + m
       /\ resp.processedCount = store.processed_count
       /\ resp.remainingCount = P - m
       /\ resp.isComplete <=> (resp.remainingCount = 0)
       /\ CountStatus(created, "pending") = Len(created) =>
            resp.remainingCount = IF left > 0 THEN left ELSE 0

\* the second call on the 25-row job: 15 rows pending when loaded, 5 left
C9_Witness ==
  /\ ChunkCallDone
  /\ store.total_prospects = 25
  /\ CountStatus(created, "pending") = 25
  /\ CountStatus(job.prospects_data, "pending") = 15
  /\ calls = 2
  /\ resp.remainingCount = 5
  /\ ~resp.isComplete

\* C10: a start request lacking a required field, with an empty row list,
\* or with more rows than the route's maximum is answered with a 4xx status
\* and leaves no job behind, on either variant of the start route.
C10_StartRejectsInvalid ==
  LET maxProspects == IF resp.op = "start" THEN MAX_START_PROSPECTS
                      ELSE MAX_SYNC_PROSPECTS
  IN ( /\ resp.op \in {"start", "start-sync"}
       /\ \/ request.present # RequiredFields
          \/ request.n = 0
          \/ request.n > maxProspects ) =>
       /\ resp.code \in 400..499
       /\ store = NoJob

\* a request with one row more than the chunked route allows is refused
C10_Witness ==
  /\ resp.op = "start"
  /\ request.present = RequiredFields
  /\ request.n = MAX_START_PROSPECTS + 1
  /\ resp.code = 400
  /\ store = NoJob

\* C11: the job a successful start request has just persisted is pending,
\* with every row pending, the three counters zero, no completion
\* timestamp, and as many rows as the request supplied.
C11_CreatedAllPending ==
  (resp.op = "start" /\ resp.code = 200) =>
    /\ store.status = "pending"
    /\ \A i \in 1..Len(Rows) : Rows[i].status = "pending"
    /\ store.processed_count = 0
    /\ store.success_count = 0
    /\ store.failed_count = 0
    /\ store.completed_at = "null"
    /\ store.total_prospects = request.n
    /\ Len(Rows) = request.n

\* C12: a chunk call whose final store write is refused reports an error
\* rather than a success with counters or isComplete, and the persisted job
\* keeps the rows and counters it had, so that a retry selects the same
\* pending rows.
C12_StoreErrorReported ==
  (resp.op = "process" /\ "final" \in env.failing
     /\ job.status \in {"pending", "processing"}) =>
    /\ resp.code >= 500
    /\ store.prospects_data = job.prospects_data
    /\ store.processed_count = job.processed_count
    /\ store.success_count = job.success_count
    /\ store.failed_count = job.failed_count
    /\ ChunkOf(store) = ChunkOf(job)

\* what a status request answers for a stored job: its status and counters,
\* no row
StatusAnswers ==
  store.status # "none" =>
    /\ resp'.code = 200
    /\ resp'.status = store.status
    /\ resp'.totalProspects = store.total_prospects
    /\ resp'.processedCount = store.processed_count
    /\ resp'.successCount = store.success_count
    /\ resp'.failedCount = store.failed_count
    /\ resp'.table = << >>

ResearchFailedOnly ==
  { k \in 1..Len(env.gens) : env.gens[k].site = "down" /\ env.gens[k].kind = "text" }

\* C14: a dispatched row whose research failed and whose generation call
\* succeeded is completed after the call, with outputs and no error, and
\* successCount has grown by the number of rows whose generation succeeded.
C14_ResearchFailureAbsorbed ==
  (ChunkCallDone /\ dispatched # << >>) =>
    LET rowIndexes == Flatten(dispatched) IN
    /\ \A k \in ResearchFailedOnly :
         LET row == RowOf(Rows, rowIndexes[k]) IN
         /\ row.status = "completed"
         /\ row.error = Undef
         /\ row.generatedEmail1 # Undef
    /\ store.success_count - job.success_count =
         Cardinality({ k \in 1..Len(env.gens) : env.gens[k].kind = "text" })

\* a chunk of three rows, research failed for the first and the third, the
\* generation call of the second threw
C14_Witness ==
  /\ ChunkCallDone
  /\ Len(env.gens) = 3
  /\ ResearchFailedOnly = {1, 3}
  /\ env.gens[2].kind = "throw"
  /\ store.success_count = 2
  /\ store.failed_count = 1

\* the status changes the specification allows a chunk call to persist
ChunkTransitions ==
  { << "pending", "processing" >>, << "processing", "completed" >>,
    << "processing", "failed" >> }

\* C15: every change of the persisted status made by a chunk call is
\* pending -> processing, processing -> completed or processing -> failed;
\* a job enters failed only from processing and a chunk call never takes a
\* job out of completed or cancelled.
C15_StatusTransitions ==
  resp.op = "process" =>
    LET path == << job.status >> \o env.statuses IN
    \A i \in 1..(Len(path) - 1) :
      path[i] # path[i + 1] => << path[i], path[i + 1] >> \in ChunkTransitions

\* C16: once the persisted status is cancelled no chunk invocation changes
\* it, whether it loads the job afterwards or loaded it before and writes
\* afterwards; only a reset takes the job out of cancelled.
C16_CancelledStays ==
  [][ (store.status = "cancelled" /\ store'.status # "cancelled") =>
        resp'.op = "reset" ]_vars

\* C17: in every persisted job state, status completed implies that no row
\* of the job is pending.
C17_CompletedHasNoPending ==
  store.status = "completed" => CountStatus(Rows, "pending") = 0

\* C18: in every persisted job state reached by job creation, chunk calls
\* taken one at a time and resets, the completion timestamp is set if and
\* only if the status is completed.
C18_StampedIffCompleted ==
  store.status # "none" =>
    (store.completed_at = "set" <=> store.status = "completed")

\* a job whose only row failed at ingestion, completed by its first chunk
\* call without any row being dispatched
C18_Witness ==
  /\ ChunkCallDone
  /\ job.status = "pending"
  /\ job.completed_at = "null"
  /\ dispatched = << >>
  /\ store.status = "completed"
  /\ store.completed_at = "set"

\* C19: with chunk calls taken one at a time, a row persisted as completed
\* or failed keeps its status, outputs and error text in the next persisted
\* state unless that state was written by a successful reset.
C19_TerminalRowsKept ==
  [][ ~(resp'.op = "reset" /\ resp'.code = 200) =>
        \A i \in 1..Len(Rows) :
          Rows[i].status \in {"completed", "failed"} =>
            /\ i <= Len(store'.prospects_data)
            /\ store'.prospects_data[i] = Rows[i] ]_vars

\* the second chunk call on an 11-row job: the ten rows settled by the
\* first call, two of them failed, are stored as they were loaded
C19_Witness ==
  /\ ChunkCallDone
  /\ job.processed_count = 10
  /\ job.failed_count = 2
  /\ store.processed_count = 11
  /\ \A i \in 1..10 : Rows[i] = job.prospects_data[i]
  /\ Rows[11] # job.prospects_data[11]

\* C20: a chunk invocation dispatches only rows that were pending in the
\* job it loaded, each of them once; a row the loaded job held as completed
\* or failed is not dispatched.
C20_OnlyPendingDispatchedOnce ==
  ChunkCallDone =>
    LET rowIndexes == Flatten(dispatched)
        loaded == job.prospects_data
    IN
    /\ \A k \in 1..Len(rowIndexes) :
         /\ \E i \in 1..Len(loaded) : loaded[i].rowIndex = rowIndexes[k]
         /\ RowOf(loaded, rowIndexes[k]).status = "pending"
    /\ \A k, l \in 1..Len(rowIndexes) : k # l => rowIndexes[k] # rowIndexes[l]
    /\ \A i \in 1..Len(loaded) :
         loaded[i].status \in {"completed", "failed"} =>
           \A k \in 1..Len(rowIndexes) : rowIndexes[k] # loaded[i].rowIndex

\* the second call on an 11-row job with failed rows among the first ten:
\* only the last row is dispatched
C20_Witness ==
  /\ ChunkCallDone
  /\ job.processed_count = 10
  /\ job.failed_count = 3
  /\ CountStatus(job.prospects_data, "failed") = 3
  /\ Flatten(dispatched) = << 12 >>

\* C21: one invocation of a process route dispatches at most CHUNK_SIZE rows
\* in total, in sub-batches of at most PARALLEL_BATCH_SIZE rows that are
\* awaited one after the other.
C21_BoundedDispatch ==
  resp.op \in {"process", "process-all"} =>
    /\ Len(Flatten(dispatched)) <= CHUNK_SIZE
    /\ \A b \in 1..Len(dispatched) : Len(dispatched[b]) <= PARALLEL_BATCH_SIZE

\* the outcomes of the last invocation with every pipeline settling in the
\* order of dispatch
InDispatchOrder(gens) == [ k \in 1..Len(gens) |-> SettlesAt(gens[k], 0) ]

\* C22: for the job an invocation loaded and the outcomes of its row
\* pipelines, the rows, counters and status it persists are those of the
\* invocation whose pipelines settle in the order of dispatch, whatever the
\* order in which they settled.
C22_OrderIndependent ==
  ChunkCallDone =>
    LET inOrder == ProcessChunk(job, InDispatchOrder(env.gens)).store IN
    /\ Rows = inOrder.prospects_data
    /\ store.processed_count = inOrder.processed_count
    /\ store.success_count = inOrder.success_count
    /\ store.failed_count = inOrder.failed_count
    /\ store.status = inOrder.status

\* three rows of which the last settled first and the first last, one of
\* them failed
C22_Witness ==
  /\ ChunkCallDone
  /\ Len(env.gens) = 3
  /\ env.gens[1].turn = 3
  /\ env.gens[3].turn = 1
  /\ env.gens[1].kind = "text"
  /\ env.gens[3].kind = "throw"
  /\ Rows[1].status = "completed"
  /\ Rows[3].status = "failed"

\* the rows of a collection that are no longer pending
Processed(prospects) ==
  Len(prospects) - CountStatus(CoerceStatus(prospects), "pending")

\* the last update written came from an invocation that overlapped another
\* one: a row it dispatched was no longer pending in the store it wrote to
OverlapWritten ==
  /\ ChunkCallDone
  /\ "stored" \in DOMAIN env
  /\ \E k \in 1..Len(Flatten(dispatched)) :
       RowOf(env.stored.prospects_data, Flatten(dispatched)[k]).status # "pending"

C24_LastWriterWins ==
  (ChunkCallDone /\ "stored" \in DOMAIN env /\ dispatched # << >>) =>
    LET computed == ProcessChunk(job, env.gens).store IN
    /\ Rows = computed.prospects_data
    /\ store.processed_count = computed.processed_count
    /\ store.success_count = computed.success_count
    /\ store.failed_count = computed.failed_count

\* another invocation persisted the second row as failed before the last
\* update of this one arrived: the update leaves the row completed and no
\* failure counted
C24_Witness ==
  /\ ChunkCallDone
  /\ "stored" \in DOMAIN env
  /\ Len(Flatten(dispatched)) = 2
  /\ env.stored.failed_count = 1
  /\ env.stored.prospects_data[2].status = "failed"
  /\ store.failed_count = 0
  /\ Rows[2].status = "completed"

\* C25: the Progress Client never has more than one chunk request awaiting
\* its response, whether its effect runs again or a timer fires while a
\* request is in flight.
C25_OneRequestInFlight == client.requests <= 1

\* the effect ran again, or a timer fired, while a request was in flight,
\* and processNextChunk returned at its guard
C25_Witness ==
  /\ client.alive
  /\ client.renders > 0
  /\ client.last = "skipped"
  /\ client.sent = 1
  /\ client.requests = 1
  /\ client.isProcessing

\* a response reached the component, which set a timer for a further call
TimerSet == client'.requests < client.requests /\ client'.timers > client.timers

\* C26: on a response the Progress Client sets up a further chunk call
\* exactly when the response is a success, not complete, and the component
\* is mounted; once it has been told that the job is complete, or has got an
\* error, it issues no further request.
C26_CallsOnlyWhileIncomplete ==
  [][ /\ TimerSet <=> /\ client'.requests < client.requests
                      /\ client.mounted
                      /\ resp'.code = 200
                      /\ ~resp'.isComplete
      /\ (client.isComplete \/ client.error) => client'.sent = client.sent ]_vars

\* C27: with chunk calls taken one at a time, none of the three counters of
\* the stored job decreases from one persisted state to the next, except
\* through a successful reset.
C27_CountersMonotone ==
  [][ (store.status # "none" /\ ~(resp'.op = "reset" /\ resp'.code = 200)) =>
        /\ store'.processed_count >= store.processed_count
        /\ store'.success_count >= store.success_count
        /\ store'.failed_count >= store.failed_count ]_vars

\* the second call on an 11-row job has raised the counters
C27_Witness ==
  /\ ChunkCallDone
  /\ job.processed_count = 10
  /\ job.success_count = 8
  /\ store.processed_count = 11
  /\ store.failed_count = 3

\* the generation call of the k-th row of the last chunk threw or came back
\* without a text block
GenerationFailed(k) == env.gens[k].kind \in {"throw", "notext"}

\* C28: a row whose generation call throws or returns no text block is
\* persisted as failed with an error text and without generated emails, and
\* the chunk call answers with a success; in every persisted state only
\* failed rows carry an error text.
C28_GenerationFailureMarksRow ==
  /\ (resp.op = "process" /\ dispatched # << >>) =>
       /\ resp.code = 200
       /\ \A k \in 1..Len(Flatten(dispatched)) :
            GenerationFailed(k) =>
              LET row == RowOf(Rows, Flatten(dispatched)[k]) IN
              /\ row.status = "failed"
              /\ Truthy(row.error)
              /\ row.generatedEmail1 = Undef
              /\ row.generatedEmail2 = Undef
              /\ row.generatedEmail3 = Undef
  /\ \A i \in 1..Len(Rows) : Rows[i].error # Undef => Rows[i].status = "failed"

\* C29: in every persisted job the counters agree with the rows:
\* processed_count is the number of rows completed or failed, success_count
\* the number of rows completed, failed_count the number of rows failed.
C29_CountersMatchRows ==
  store.status # "none" =>
    /\ store.processed_count =
         CountStatus(Rows, "completed") + CountStatus(Rows, "failed")
    /\ store.success_count = CountStatus(Rows, "completed")
    /\ store.failed_count = CountStatus(Rows, "failed")

\* C30: the rows of every persisted job carry pairwise distinct rowIndex
\* values, and the lookup by rowIndex of the merge resolves every row to its
\* own position.
C30_RowIndexDistinct ==
  store.status # "none" =>
    /\ \A i, k \in 1..Len(Rows) : i # k => Rows[i].rowIndex # Rows[k].rowIndex
    /\ \A i \in 1..Len(Rows) : FindIndex(Rows, Rows[i].rowIndex) = i

====
